---- MODULE Spec2Model ----
(***************************************************************************)
(* Reactive state primitives of vex-js: the boxed value VexdState with its *)
(* subscriber callbacks and the boxed array VexdStateList (vexd-state.ts), *)
(* the effect store and the managed timers (vexd-hooks.ts, vexd.ts).       *)
(*                                                                         *)
(* Every public call (setState, sideEffect, an unsubscribe closure, clear) *)
(* is one action.  A call runs synchronously to completion, re-entrant     *)
(* calls made by subscribers included, so each action evaluates the whole  *)
(* call with the recursive operators setState / forEach / invoke over a    *)
(* machine record and stores the outcome.                                  *)
(*                                                                         *)
(* Each component has its own specification over its own variables: Spec   *)
(* (VexdState), SpecList (VexdStateList), SpecEffects (effectStore) and    *)
(* SpecTimers (createTimer, createInterval); the variables of the other    *)
(* components keep their initial values in it.                             *)
(***************************************************************************)
EXTENDS Integers, Sequences, FiniteSets, TLC

\* ---------------------------------------------------------------- bounds
MaxVal == 2    \* numbers 0..MaxVal are the values stored in the box
MaxSubs == 3   \* sideEffect is not called while the list holds MaxSubs entries
MaxItem == 3   \* numbers 1..MaxItem are the items of a VexdStateList
MaxLen == 3    \* add is not called on an array of MaxLen items
MaxListSubs == 1  \* sideEffect is not called on a list with more subscribers
MaxEffects == 3   \* addEffect is not called while effects holds MaxEffects entries
MaxIds == 4       \* no platform timer is scheduled once MaxIds have been
MaxRuns == 2      \* a timer does not run once its callback has run MaxRuns times

\* ---------------------------------------------------------------- values
\* NaN is the one number that is not strictly equal to itself; it is written
\* here as the first number past MaxVal.
NaN == MaxVal + 1

Values == (0..MaxVal) \cup {NaN}

\* a === b on numbers, and on references to arrays (the negative numbers):
\* two references are equal when they are the same array object.
StrictEq(a, b) == a = b /\ a # NaN

\* CallbackOrValue<T>: a literal T, or an updater (oldState: T) => T.
Updaters == {"same", "succ"}

Literal(v) == [kind |-> "value", f |-> "none", v |-> v]

Updater(f) == [kind |-> "function", f |-> f, v |-> 0]

CallbackOrValue == {Literal(v) : v \in Values} \cup {Updater(f) : f \in Updaters}

\* The updaters callers pass:  same = (x) => x,  succ = (x) => (x + 1) % (MaxVal + 1)
ApplyUpdater(f, x) ==
    IF f = "same" THEN x
    ELSE IF x = NaN THEN NaN ELSE (x + 1) % (MaxVal + 1)

\* ------------------------------------------------------------- callbacks
\* The subscriber functions callers register.  What each does when invoked
\* is given in invoke below:
\*   r1, r2  only record the value they receive
\*   th      throws
\*   st      calls setState(2) when it receives 1
\*   un      calls the unsubscribe closure of its own registration
\*   cl      calls clear()
Callbacks == {"r1", "r2", "th", "st", "un", "cl"}

\* ---------------------------------------------------------- array helpers
\* An element of a subscribers array: the function fn.  reg is bookkeeping
\* for the properties only: the position the registration had in the list
\* when the running call started (0 if it was pushed during the call); the
\* program never reads it.
Reg(fn, reg) == [fn |-> fn, reg |-> reg]

Tagged(subs) == [i \in 1..Len(subs) |-> Reg(subs[i], i)]

Fns(arr) == [i \in 1..Len(arr) |-> arr[i].fn]

\* Array.prototype.indexOf, 1-based; 0 stands for -1 (absent).
IndexOf(arr, fn) ==
    IF \E i \in 1..Len(arr) : arr[i].fn = fn
    THEN CHOOSE i \in 1..Len(arr) : arr[i].fn = fn /\ \A j \in 1..(i - 1) : arr[j].fn # fn
    ELSE 0

\* arr.splice(index, 1)
Splice(arr, index) ==
    [i \in 1..(Len(arr) - 1) |-> IF i < index THEN arr[i] ELSE arr[i + 1]]

\* --------------------------------------------------------------- machine
\* The machine record a call runs on:
\*   value   this.value
\*   arrs    the array objects allocated so far; arrs[cur] is this.subscribers
\*   log     the callback invocations made, in order
\*   vals    the values assigned to this.value by setState, in order
\*   passes  the number of notification passes begun
\*   exc     an exception is propagating
\*   depth   the number of setState calls on the stack
\*   heap    the item arrays allocated so far (VexdStateList only); a value
\*           that is a reference to heap[i] is written -i
Entry(cb, v, via, d) ==
    [cb |-> cb.fn, reg |-> cb.reg, val |-> v, via |-> via, depth |-> d]

Machine(v, subs) ==
    [value |-> v, arrs |-> <<Tagged(subs)>>, cur |-> 1, log |-> <<>>, vals |-> <<>>,
     passes |-> 0, exc |-> FALSE, depth |-> 0, heap |-> <<>>]

\* this.subscribers
Subscribers(m) == m.arrs[m.cur]

\* The closure returned by sideEffect(fn):
\*   const index = this.subscribers.indexOf(fn);
\*   if (index !== -1) this.subscribers.splice(index, 1);
unsubscribe(m, fn) ==
    LET index == IndexOf(Subscribers(m), fn)
    IN  IF index # 0
        THEN [m EXCEPT !.arrs[m.cur] = Splice(Subscribers(m), index)]
        ELSE m

\* Faulty variant of clear (keeps the list), for the sensitivity of C8.
clearNothing(m) == m

\* clear(): this.subscribers = []  -- a new array object; the old one is kept
\* by whoever still iterates it.
clear(m) == [m EXCEPT !.arrs = Append(@, <<>>), !.cur = Len(m.arrs) + 1]

\* typeof newState === "function" ? newState(previousValue) : newState
Computed(newState, previousValue) ==
    IF newState.kind = "function"
    THEN ApplyUpdater(newState.f, previousValue)
    ELSE newState.v

\* Faulty variants of the change check, for the sensitivity of C2, C3, C4:
\* no check at all; Object.is-like equality (NaN same as NaN); the updater
\* itself compared with the old value (never equal).
NotifiesAlways(newState, next, previousValue) == TRUE

NotifiesUnlessSame(newState, next, previousValue) == next # previousValue

NotifiesOnUpdater(newState, next, previousValue) ==
    newState.kind = "function" \/ ~StrictEq(next, previousValue)

\* if (this.value !== previousValue)
Notifies(newState, next, previousValue) == ~StrictEq(next, previousValue)

\* ------------------------------------------------------- array updaters
\* The items of a VexdStateList, the predicates callers pass to remove, find
\* and filter, and the callbacks they pass to map.
Items == 1..MaxItem

\* undefined, the result of Array.prototype.find when nothing matches
Undefined == 0

\* A predicate is written as a number p:  0 = (x) => false,
\* an item p = (x) => x === p,  MaxItem + 1 = (x) => true.
Predicates == 0..(MaxItem + 1)

Holds(predicate, item) == predicate = item \/ predicate = MaxItem + 1

\* The callbacks of map:  same = (x) => x,  succ = (x) => x % MaxItem + 1
Transforms == {"same", "succ"}

ApplyTransform(callback, item) ==
    IF callback = "same" THEN item ELSE (item % MaxItem) + 1

\* The reference to array object i of the heap, and the array a reference
\* points to.
Ref(i) == 0 - i

Deref(heap, ref) == heap[0 - ref]

\* A new array object with the given items: the heap with it, and the
\* reference to it.
Allocated(heap, array) == [heap |-> Append(heap, array), ret |-> Ref(Len(heap) + 1)]

\* Faulty variant of the updater of add (oldState.push(item); return oldState),
\* for the sensitivity of C11.
pushed(heap, oldState, item) ==
    [heap |-> [heap EXCEPT ![0 - oldState] = Append(@, item)], ret |-> oldState]

\* The updater of add:  (oldState) => [...oldState, item]
appended(heap, oldState, item) ==
    Allocated(heap, Append(Deref(heap, oldState), item))

\* Faulty variants of the updater of remove, for the sensitivity of C12 and
\* C13: the items the predicate holds for are the ones kept; the old array
\* is returned when the predicate holds for none of its items.
filteredIn(heap, oldState, predicate) ==
    Allocated(heap, SelectSeq(Deref(heap, oldState), LAMBDA item : Holds(predicate, item)))

filteredOrSame(heap, oldState, predicate) ==
    IF \A i \in 1..Len(Deref(heap, oldState)) : ~Holds(predicate, Deref(heap, oldState)[i])
    THEN [heap |-> heap, ret |-> oldState]
    ELSE Allocated(heap, SelectSeq(Deref(heap, oldState), LAMBDA item : ~Holds(predicate, item)))

\* The updater of remove:  (oldState) => oldState.filter((item) => !predicate(item))
filteredOut(heap, oldState, predicate) ==
    Allocated(heap, SelectSeq(Deref(heap, oldState), LAMBDA item : ~Holds(predicate, item)))

\* The updater of map:  (oldState) => oldState.map(callback)
mapped(heap, oldState, callback) ==
    Allocated(heap, [i \in 1..Len(Deref(heap, oldState)) |->
                        ApplyTransform(callback, Deref(heap, oldState)[i])])

ArrayUpdater(f, arg) == [kind |-> "function", f |-> f, v |-> arg]

\* What evaluating newState yields in setState: the value, and the heap
\* after it (the updaters of the list allocate an array).
Returned(m, newState, previousValue) ==
    IF newState.kind = "function" /\ newState.f \in {"add", "remove", "map"}
    THEN CASE newState.f = "add" -> appended(m.heap, previousValue, newState.v)
           [] newState.f = "remove" -> filteredOut(m.heap, previousValue, newState.v)
           [] newState.f = "map" -> mapped(m.heap, previousValue, newState.v)
    ELSE [heap |-> m.heap, ret |-> Computed(newState, previousValue)]

RECURSIVE setState(_, _), forEach(_, _, _, _), invoke(_, _, _, _)

\* A call of the callback cb with argument v.
invoke(m, cb, v, via) ==
    LET m1 == [m EXCEPT !.log = Append(@, Entry(cb, v, via, m.depth))]
    IN  CASE cb.fn \in {"r1", "r2"} -> m1
          [] cb.fn = "th" -> [m1 EXCEPT !.exc = TRUE]
          [] cb.fn = "st" -> IF v = 1 THEN setState(m1, Literal(2)) ELSE m1
          [] cb.fn = "un" -> unsubscribe(m1, cb.fn)
          [] cb.fn = "cl" -> clear(m1)

\* this.subscribers.forEach((subscriber) => subscriber(this.value)), from
\* index k on: the array object a and the length len are fixed when the loop
\* starts, an index the array no longer has is skipped, this.value is read
\* anew for every call, and an exception ends the loop.
forEach(m, a, k, len) ==
    IF m.exc \/ k > len THEN m
    ELSE IF k > Len(m.arrs[a]) THEN forEach(m, a, k + 1, len)
    ELSE forEach(invoke(m, m.arrs[a][k], m.value, "notify"), a, k + 1, len)

\* Faulty variant of setState (the subscribers are dropped after a pass, as if
\* subscriptions were for one notification), for the sensitivity of C23.
setStateOnce(m, newState) ==
    LET previousValue == m.value
        next == Returned(m, newState, previousValue)
        m1 == [m EXCEPT !.value = next.ret, !.heap = next.heap,
                        !.vals = Append(@, next.ret), !.depth = @ + 1]
        m2 == IF Notifies(newState, m1.value, previousValue)
              THEN clear(forEach([m1 EXCEPT !.passes = @ + 1], m1.cur, 1, Len(Subscribers(m1))))
              ELSE m1
    IN  [m2 EXCEPT !.depth = m.depth]

\* Faulty variant of setState (the previous value is restored when a
\* subscriber throws), for the sensitivity of C28.
setStateRestoring(m, newState) ==
    LET previousValue == m.value
        next == Returned(m, newState, previousValue)
        m1 == [m EXCEPT !.value = next.ret, !.heap = next.heap,
                        !.vals = Append(@, next.ret), !.depth = @ + 1]
        m2 == IF Notifies(newState, m1.value, previousValue)
              THEN forEach([m1 EXCEPT !.passes = @ + 1], m1.cur, 1, Len(Subscribers(m1)))
              ELSE m1
    IN  [m2 EXCEPT !.depth = m.depth, !.value = IF m2.exc THEN previousValue ELSE @]

setState(m, newState) ==
    LET previousValue == m.value
        next == Returned(m, newState, previousValue)
        m1 == [m EXCEPT !.value = next.ret, !.heap = next.heap,
                        !.vals = Append(@, next.ret), !.depth = @ + 1]
        m2 == IF Notifies(newState, m1.value, previousValue)
              THEN forEach([m1 EXCEPT !.passes = @ + 1], m1.cur, 1, Len(Subscribers(m1)))
              ELSE m1
    IN  [m2 EXCEPT !.depth = m.depth]

\* get state(): return this.value
state(m) == [m |-> m, ret |-> m.value]

\* Faulty variant of sideEffect (triggerNow ignored), for the sensitivity of C5.
sideEffectNoTrigger(m, fn, triggerNow) ==
    [m EXCEPT !.arrs[m.cur] = Append(@, Reg(fn, 0))]

\* sideEffect(fn, triggerNow): if (triggerNow) fn(this.value); then
\* this.subscribers.push(fn).  An exception thrown by fn skips the push.
sideEffect(m, fn, triggerNow) ==
    LET m1 == IF triggerNow THEN invoke(m, Reg(fn, 0), m.value, "immediate") ELSE m
    IN  IF m1.exc THEN m1 ELSE [m1 EXCEPT !.arrs[m1.cur] = Append(@, Reg(fn, 0))]

\* ------------------------------------------------------------ list calls
\* add(item): this.setState((oldState) => [...oldState, item])
add(m, item) == setState(m, ArrayUpdater("add", item))

\* remove(predicate)
remove(m, predicate) == setState(m, ArrayUpdater("remove", predicate))

\* map(callback)
map(m, callback) == setState(m, ArrayUpdater("map", callback))

\* What a read of the list yields: the machine after it and the result.
Read(m, ret) == [m |-> m, ret |-> ret]

\* find(predicate): this.state.find(predicate) -- the first match, or undefined
find(m, predicate) ==
    LET array == Deref(m.heap, m.value)
        hits == {i \in 1..Len(array) : Holds(predicate, array[i])}
    IN  Read(m, IF hits = {} THEN Undefined
                ELSE array[CHOOSE i \in hits : \A j \in hits : i <= j])

\* Faulty variant of filter (the result is stored, as remove does), for the
\* sensitivity of C14.
filterStored(m, predicate) ==
    LET next == Allocated(m.heap, SelectSeq(Deref(m.heap, m.value),
                                            LAMBDA item : Holds(predicate, item)))
        m1 == setState([m EXCEPT !.heap = next.heap], Literal(next.ret))
    IN  Read(m1, next.ret)

\* filter(predicate): this.state.filter(predicate) -- a new array, which the
\* list does not store.
filter(m, predicate) ==
    LET next == Allocated(m.heap, SelectSeq(Deref(m.heap, m.value),
                                            LAMBDA item : Holds(predicate, item)))
    IN  Read([m EXCEPT !.heap = next.heap], next.ret)

\* ------------------------------------------------------------------ state
VARIABLES
    value,        \* VexdState.value
    subscribers,  \* VexdState.subscribers
    last,         \* the last call: its arguments, the state before it, what it did
    owed,         \* setState calls so far that changed the value, less the passes begun so far
    cleared,      \* the callbacks the latest clear() removed, while none has been pushed since
    stage,        \* how far the calls so far follow the scenario of ScenarioNext
    seen,         \* the values r1 has recorded in that scenario
    list,             \* VexdStateList: the items of the array this.value refers to
    listSubscribers,  \* VexdStateList: this.subscribers
    listLast          \* the last call on the list: its arguments, the state before it, what it did

listVars == <<list, listSubscribers, listLast>>

VARIABLES
    store,        \* effectStore: which of the two implementations made it
    effects,      \* effectStore: the effects array
    removed,      \* the disposers whose only entry a returned closure removed, not added since
    effectsLast   \* the last call on the store: its arguments, the state before it, what it did

effectVars == <<store, effects, removed, effectsLast>>

VARIABLES
    hooks,        \* per timed hook: id, its timeoutId / intervalId (0 = null), and fn, its timerFn
    active,       \* the platform timers that are scheduled: id and the hook owning it
    nextId,       \* the id the platform gives the next timer
    timerLast,    \* the last step: a call on a hook or a firing, the state before it, what it did
    runs          \* per timed hook: the runs of its callback since it last scheduled a timer

timerVars == <<hooks, active, nextId, timerLast, runs>>

vars == <<value, subscribers, last, owed, cleared, stage, seen, listVars, effectVars, timerVars>>

\* The values the variables of the timed hooks keep in the other specifications.
NoTimers ==
    hooks = "none" /\ active = {} /\ nextId = 0 /\ timerLast = "none" /\ runs = "none"

\* The values the variables of the effect store keep in the other specifications.
NoEffects == store = "none" /\ effects = <<>> /\ removed = {} /\ effectsLast = "none"

\* The values the variables of the list keep in the other specifications.
NoList == list = <<>> /\ listSubscribers = <<>> /\ listLast = "none"

Call(op, newState, fn, triggerNow, again) ==
    [op |-> op, newState |-> newState, fn |-> fn, triggerNow |-> triggerNow, again |-> again]

\* What a call did: the machine it ended in, with the state it started from;
\* prior is the callback whose unsubscribe closure the call before it invoked
\* ("none" if that call was not one of an unsubscribe closure).
Outcome(call, prior, prevValue, prevSubs, m) ==
    [call |-> call, prior |-> prior, prevValue |-> prevValue, prevSubs |-> prevSubs,
     log |-> m.log, vals |-> m.vals, passes |-> m.passes, exc |-> m.exc]

\* The number of values in vals strictly equal to the value stored before them.
Repeats(prev, vals) ==
    Cardinality({i \in 1..Len(vals) :
                    StrictEq(vals[i], IF i = 1 THEN prev ELSE vals[i - 1])})

Range(s) == {s[i] : i \in 1..Len(s)}

\* The scenario
\*   const s = new VexdState(0); let seen = [];
\*   s.sideEffect(v => seen.push(v)); s.setState(1); s.setState(1); s.setState(2);
\* stage is the number of its statements the calls so far have made, nothing
\* else having been called; 0 once the calls have left it.
ScenarioNext(call) ==
    CASE stage = 1 /\ call = Call("sideEffect", Literal(0), "r1", FALSE, FALSE) -> 2
      [] stage = 2 /\ call = Call("setState", Literal(1), "none", FALSE, FALSE) -> 3
      [] stage = 3 /\ call = Call("setState", Literal(1), "none", FALSE, FALSE) -> 4
      [] stage = 4 /\ call = Call("setState", Literal(2), "none", FALSE, FALSE) -> 5
      [] OTHER -> 0

Recorded(log) ==
    LET own == SelectSeq(log, LAMBDA e : e.cb = "r1")
    IN  [i \in 1..Len(own) |-> own[i].val]

Commit(call, m) ==
    /\ value' = m.value
    /\ subscribers' = Fns(Subscribers(m))
    /\ last' = Outcome(call, IF last.call.op = "unsubscribe" THEN last.call.fn ELSE "none",
                        value, subscribers, m)
    /\ owed' = owed + (Len(m.vals) - Repeats(value, m.vals)) - m.passes
    /\ stage' = ScenarioNext(call)
    /\ seen' = IF ScenarioNext(call) = 0 THEN <<>> ELSE seen \o Recorded(m.log)
    /\ UNCHANGED <<listVars, effectVars, timerVars>>

\* new VexdState(initialValue)
Init ==
    /\ value \in Values
    /\ subscribers = <<>>
    /\ last = Outcome(Call("new", Literal(value), "none", FALSE, FALSE),
                      "none", value, <<>>, Machine(value, <<>>))
    /\ owed = 0
    /\ cleared = {}
    /\ stage = IF value = 0 THEN 1 ELSE 0
    /\ seen = <<>>
    /\ NoList
    /\ NoEffects
    /\ NoTimers

\* box.setState(newState)
SetStateCall ==
    \E newState \in CallbackOrValue :
        /\ Commit(Call("setState", newState, "none", FALSE, FALSE),
                  setState(Machine(value, subscribers), newState))
        /\ UNCHANGED cleared

\* box.sideEffect(fn, triggerNow)
SideEffectCall ==
    \E fn \in Callbacks, triggerNow \in BOOLEAN :
        /\ Len(subscribers) < MaxSubs
        /\ LET m == sideEffect(Machine(value, subscribers), fn, triggerNow)
           IN  /\ Commit(Call("sideEffect", Literal(0), fn, triggerNow, FALSE), m)
               /\ cleared' = IF m.exc THEN cleared ELSE {}

\* A call of an unsubscribe closure returned by sideEffect(fn): the closure
\* the call before this one invoked (again), or a closure of a callback that
\* is in the list.  The other closures that exist, those of callbacks no
\* longer in the list, find index -1 like a second call of the first kind.
UnsubscribeCall ==
    \E fn \in Callbacks, again \in BOOLEAN :
        /\ IF again
           THEN last.call.op = "unsubscribe" /\ last.call.fn = fn
           ELSE fn \in Range(subscribers)
        /\ Commit(Call("unsubscribe", Literal(0), fn, FALSE, again),
                  unsubscribe(Machine(value, subscribers), fn))
        /\ UNCHANGED cleared

\* box.state
StateCall ==
    /\ Commit(Call("state", Literal(0), "none", FALSE, FALSE),
              state(Machine(value, subscribers)).m)
    /\ UNCHANGED cleared

\* box.clear()
ClearCall ==
    /\ Commit(Call("clear", Literal(0), "none", FALSE, FALSE),
              clear(Machine(value, subscribers)))
    /\ cleared' = Range(subscribers)

Next == SetStateCall \/ SideEffectCall \/ UnsubscribeCall \/ ClearCall \/ StateCall

Spec == Init /\ [][Next]_vars

\* ------------------------------------------------------ VexdStateList
\* The values the variables of the box keep in the other specifications.
NoBox ==
    /\ value = 0
    /\ subscribers = <<>>
    /\ last = "none"
    /\ owed = 0
    /\ cleared = {}
    /\ stage = 0
    /\ seen = <<>>

boxVars == <<value, subscribers, last, owed, cleared, stage, seen>>

\* The subscriber functions registered on the list.
ListCallbacks == {"r1", "th"}

\* The arrays a list is constructed with.
RECURSIVE Arrays(_)
Arrays(n) ==
    IF n = 0 THEN {<<>>}
    ELSE Arrays(n - 1) \cup {Append(a, x) : a \in {b \in Arrays(n - 1) : Len(b) = n - 1}, x \in Items}

\* The machine a call on the list runs on: the array of this.value is
\* object 1 of the heap.
ListMachine(array, subs) ==
    [Machine(Ref(1), subs) EXCEPT !.heap = <<array>>]

\* What a call on the list did.  oldAfter is what the array object that was
\* this.value before the call holds after it, fresh whether this.value
\* refers to another array object than before, ret what the call returned
\* (find: the item or Undefined; filter: the items of the array returned,
\* retNew telling that it is not the array the list stores).
ListOutcome(op, arg, m, ret, retNew) ==
    [op |-> op, arg |-> arg, prevList |-> list, prevSubs |-> listSubscribers,
     oldAfter |-> m.heap[1], fresh |-> m.value # Ref(1),
     log |-> m.log, passes |-> m.passes, exc |-> m.exc, ret |-> ret, retNew |-> retNew]

ListCommit(op, arg, m, ret, retNew) ==
    /\ list' = Deref(m.heap, m.value)
    /\ listSubscribers' = Fns(Subscribers(m))
    /\ listLast' = ListOutcome(op, arg, m, ret, retNew)
    /\ UNCHANGED <<boxVars, effectVars, timerVars>>

\* new VexdStateList(initialValue)
ListInit ==
    /\ list \in Arrays(MaxLen)
    /\ listSubscribers = <<>>
    /\ listLast = ListOutcome("new", 0, ListMachine(list, <<>>), 0, FALSE)
    /\ NoBox
    /\ NoEffects
    /\ NoTimers

\* list.add(item)
AddCall ==
    \E item \in Items :
        /\ Len(list) < MaxLen
        /\ ListCommit("add", item, add(ListMachine(list, listSubscribers), item), 0, FALSE)

\* list.remove(predicate)
RemoveCall ==
    \E predicate \in Predicates :
        ListCommit("remove", predicate,
                   remove(ListMachine(list, listSubscribers), predicate), 0, FALSE)

\* list.map(callback)
MapCall ==
    \E callback \in Transforms :
        ListCommit("map", callback, map(ListMachine(list, listSubscribers), callback), 0, FALSE)

\* list.find(predicate)
FindCall ==
    \E predicate \in Predicates :
        LET r == find(ListMachine(list, listSubscribers), predicate)
        IN  ListCommit("find", predicate, r.m, r.ret, FALSE)

\* list.filter(predicate)
FilterCall ==
    \E predicate \in Predicates :
        LET r == filter(ListMachine(list, listSubscribers), predicate)
        IN  ListCommit("filter", predicate, r.m, Deref(r.m.heap, r.ret), r.ret # r.m.value)

\* list.sideEffect(fn, triggerNow)
ListSideEffectCall ==
    \E fn \in ListCallbacks, triggerNow \in BOOLEAN :
        /\ Len(listSubscribers) <= MaxListSubs
        /\ ListCommit("sideEffect", fn,
                      sideEffect(ListMachine(list, listSubscribers), fn, triggerNow), 0, FALSE)

ListNext ==
    AddCall \/ RemoveCall \/ MapCall \/ FindCall \/ FilterCall \/ ListSideEffectCall

SpecList == ListInit /\ [][ListNext]_vars

\* ------------------------------------------------------------ properties
\* The value the last setState call computed from its argument.
LastNext == Computed(last.call.newState, last.prevValue)

\* The invocations the notification pass of the last call itself made (not
\* those of re-entrant calls).
OuterPass(log) == SelectSeq(log, LAMBDA e : e.via = "notify" /\ e.depth = 1)

\* A pass that calls every callback of subs once, in order, with v.
FullPass(subs, v) ==
    [i \in 1..Len(subs) |->
        [cb |-> subs[i], reg |-> i, val |-> v, via |-> "notify", depth |-> 1]]

Count(seq, x) == Cardinality({i \in 1..Len(seq) : seq[i] = x})

CountCb(log, fn) == Cardinality({i \in 1..Len(log) : log[i].cb = fn})

\* C1: a setState call whose computed value is strictly unequal to the
\* current one stores it and, before it returns, invokes every callback of
\* subscribers exactly once with that value, in registration order.
C1_SetNotifiesEverySubscriber ==
    (last.call.op = "setState" /\ ~last.exc /\ ~StrictEq(LastNext, last.prevValue))
        => /\ last.vals[1] = LastNext
           /\ OuterPass(last.log) = FullPass(last.prevSubs, LastNext)

\* C2: a setState call whose computed value is strictly equal to the current
\* one invokes no subscriber and leaves the value unchanged; the scenario
\* sideEffect(record); setState(1); setState(1); setState(2) from 0 records
\* exactly 1, 2.
C2_EqualSetIsSilent ==
    /\ (last.call.op = "setState" /\ StrictEq(LastNext, last.prevValue))
          => (last.log = <<>> /\ last.passes = 0 /\ value = last.prevValue)
    /\ stage = 5 => seen = <<1, 2>>

C2_Witness == stage = 5 /\ last.prevValue = 1 /\ value = 2

\* C3: over any sequence of setState calls, the passes begun are as many as
\* the calls, less one for each call whose value is strictly equal to the
\* value stored just before it: call by call, and in total (owed = 0).
C3_OnePassPerChangingSet ==
    /\ owed = 0
    /\ last.passes = Len(last.vals) - Repeats(last.prevValue, last.vals)

C3_Witness ==
    /\ stage = 4
    /\ last.call.op = "setState"
    /\ Len(last.vals) = 1
    /\ last.passes = 0
    /\ last.prevSubs = <<"r1">>

\* C4: with an updater f, the value stored is f(current) and the change check
\* compares f(current) with the old value: an updater returning the old value
\* notifies nobody, one returning another value begins a pass that delivers
\* that value.
C4_UpdaterComparedByResult ==
    (last.call.op = "setState" /\ last.call.newState.kind = "function")
        => LET old == last.prevValue
               next == ApplyUpdater(last.call.newState.f, old)
           IN  /\ last.vals[1] = next
               /\ IF StrictEq(next, old)
                  THEN last.log = <<>> /\ last.passes = 0 /\ value = old
                  ELSE /\ last.passes >= 1
                       /\ last.prevSubs # <<>>
                             => last.log[1] = FullPass(last.prevSubs, next)[1]

C4_Witness ==
    /\ last.call.op = "setState"
    /\ last.call.newState = Updater("same")
    /\ last.prevSubs # <<>>
    /\ last.prevValue = 1
    /\ last.log = <<>>

\* C5: sideEffect(fn, true) calls fn itself exactly once, with the current
\* value, before anything else the call does; sideEffect(fn, false) invokes
\* nothing, and only a notification pass of setState invokes fn afterwards.
C5_ImmediateCallOnce ==
    /\ last.call.op = "sideEffect"
          => IF last.call.triggerNow
             THEN /\ last.log # <<>>
                  /\ last.log[1] = [cb |-> last.call.fn, reg |-> 0, val |-> last.prevValue,
                                    via |-> "immediate", depth |-> 0]
                  /\ Cardinality({i \in 1..Len(last.log) : last.log[i].via = "immediate"}) = 1
             ELSE last.log = <<>>
    /\ \A i \in 1..Len(last.log) :
          last.log[i].via = "immediate" => (i = 1 /\ last.call.op = "sideEffect")
    /\ (\E i \in 1..Len(last.log) : last.log[i].via = "notify") => last.passes >= 1

C5_Witness ==
    /\ last.call = Call("sideEffect", Literal(0), "r1", TRUE, FALSE)
    /\ last.prevValue = 2
    /\ Len(last.log) = 1
    /\ subscribers = Append(last.prevSubs, "r1")

\* C6: one call of an unsubscribe closure removes the first registration of
\* its callback and nothing else; a callback registered k times is notified
\* k-1 times by the next change.
C6_UnsubscribeRemovesOne ==
    /\ (last.call.op = "unsubscribe" /\ Count(last.prevSubs, last.call.fn) >= 1)
          => \E i \in 1..Len(last.prevSubs) :
                /\ last.prevSubs[i] = last.call.fn
                /\ \A j \in 1..(i - 1) : last.prevSubs[j] # last.call.fn
                /\ subscribers = SubSeq(last.prevSubs, 1, i - 1)
                                    \o SubSeq(last.prevSubs, i + 1, Len(last.prevSubs))
    /\ (/\ last.call.op = "setState"
        /\ last.prior # "none"
        /\ ~last.exc
        /\ ~StrictEq(LastNext, last.prevValue))
          => CountCb(OuterPass(last.log), last.prior) = Count(last.prevSubs, last.prior)

\* C7: a second call of the same unsubscribe closure leaves subscribers as
\* it is.
C7_SecondUnsubscribeIsNoOp ==
    (last.call.op = "unsubscribe" /\ last.call.again) => subscribers = last.prevSubs

\* C8: clear() empties subscribers and keeps the value; a setState made while
\* no callback has been pushed since changes the value and invokes none of
\* the callbacks clear() removed; in any call, only callbacks that were in
\* the list when it started (or the one being subscribed) are invoked.
C8_ClearDetachesAll ==
    /\ last.call.op = "clear"
          => (subscribers = <<>> /\ value = last.prevValue /\ last.log = <<>>)
    /\ cleared # {} => subscribers = <<>>
    /\ (last.call.op = "setState" /\ cleared # {})
          => /\ value = LastNext
             /\ \A i \in 1..Len(last.log) : last.log[i].cb \notin cleared
    /\ \A i \in 1..Len(last.log) :
          \/ last.log[i].cb \in Range(last.prevSubs)
          \/ last.call.op = "sideEffect" /\ last.log[i].cb = last.call.fn

C8_Witness ==
    /\ last.call.op = "setState"
    /\ "r1" \in cleared
    /\ value # last.prevValue
    /\ last.passes = 1
    /\ last.log = <<>>

\* C9: when a subscriber throws in the notification pass of a setState call
\* (here: one during which no subscriber calls setState), the call throws, no
\* subscriber registered after the throwing one has been invoked in that
\* pass, and every subscriber registered before it has.
C9_ThrowAbortsPass ==
    (/\ last.call.op = "setState"
     /\ Len(last.vals) = 1
     /\ last.log # <<>>
     /\ last.log[Len(last.log)].cb = "th")
        => /\ last.exc
           /\ {OuterPass(last.log)[i].reg : i \in 1..Len(OuterPass(last.log))}
                 = 1..last.log[Len(last.log)].reg

\* C10: after setState calls made one after another the value is the one the
\* last call computed, and every subscriber registered before them has
\* received exactly the values that were not suppressed, in call order.
C10_LastSetWinsAllNotified ==
    (last.call.op = "setState" /\ ~last.exc /\ Len(last.vals) = 1)
        => /\ value = LastNext
           /\ \A i \in 1..Len(last.prevSubs) :
                 LET got == SelectSeq(last.log, LAMBDA e : e.reg = i)
                 IN  IF StrictEq(LastNext, last.prevValue)
                     THEN got = <<>>
                     ELSE got = <<FullPass(last.prevSubs, LastNext)[i]>>

\* ------------------------------------------------------- effectStore
\* The two implementations: effectStore of vexd-hooks.ts (the one index.ts
\* exports, and the one of the built bundle) and Vexd.effectStore of vexd.ts.
Stores == {"hooks", "vexd"}

\* The disposer functions callers register:
\*   d1, d2  only record that they ran
\*   dth     throws
\*   dun     calls the closure addEffect returned for it
Disposers == {"d1", "d2", "dth", "dun"}

\* The record a call on the store runs on: the effects array (entries tagged
\* as in Reg), the disposers invoked in order, and whether an exception is
\* propagating.
EffectMachine(array) == [effects |-> Tagged(array), log |-> <<>>, exc |-> FALSE]

\* addEffect(effect): effects.push(effect)
addEffect(e, effect) == [e EXCEPT !.effects = Append(@, Reg(effect, 0))]

\* The closure returned by addEffect(effect):
\*   const index = effects.indexOf(effect);
\*   if (index !== -1) effects.splice(index, 1);
unregister(e, effect) ==
    LET index == IndexOf(e.effects, effect)
    IN  IF index # 0 THEN [e EXCEPT !.effects = Splice(@, index)] ELSE e

\* Faulty variant of a disposer call (exceptions are swallowed), for the
\* sensitivity of C17.
disposeFnCaught(e, disposeFn) ==
    LET e1 == [e EXCEPT !.log = Append(@, disposeFn)]
    IN  IF disposeFn.fn = "dun" THEN unregister(e1, "dun") ELSE e1

\* disposeFn()
callDisposeFn(e, disposeFn) ==
    LET e1 == [e EXCEPT !.log = Append(@, disposeFn)]
    IN  CASE disposeFn.fn \in {"d1", "d2"} -> e1
          [] disposeFn.fn = "dth" -> [e1 EXCEPT !.exc = TRUE]
          [] disposeFn.fn = "dun" -> unregister(e1, "dun")

\* effects.forEach((disposeFn) => disposeFn()) from index k on, len being the
\* length of effects when the loop started.
RECURSIVE disposeEach(_, _, _)
disposeEach(e, k, len) ==
    IF e.exc \/ k > len THEN e
    ELSE IF k > Len(e.effects) THEN disposeEach(e, k + 1, len)
    ELSE disposeEach(callDisposeFn(e, e.effects[k]), k + 1, len)

\* dispose of vexd-hooks.ts: the loop only.
disposeHooks(e) == disposeEach(e, 1, Len(e.effects))

\* dispose of vexd.ts: the loop, then effects.length = 0 (not reached when a
\* disposer throws).
disposeVexd(e) ==
    LET e1 == disposeEach(e, 1, Len(e.effects))
    IN  IF e1.exc THEN e1 ELSE [e1 EXCEPT !.effects = <<>>]

dispose(impl, e) == IF impl = "hooks" THEN disposeHooks(e) ELSE disposeVexd(e)

\* What a call on the store did; prior is the operation of the call before it.
EffectOutcome(op, fn, prior, prevEffects, e) ==
    [op |-> op, fn |-> fn, prior |-> prior, prevEffects |-> prevEffects,
     log |-> e.log, exc |-> e.exc]

EffectCommit(op, fn, e) ==
    /\ effects' = Fns(e.effects)
    /\ effectsLast' = EffectOutcome(op, fn, effectsLast.op, effects, e)
    /\ UNCHANGED <<store, boxVars, listVars, timerVars>>

\* effectStore()
EffectInit ==
    /\ store \in Stores
    /\ effects = <<>>
    /\ removed = {}
    /\ effectsLast = EffectOutcome("new", "none", "none", <<>>, EffectMachine(<<>>))
    /\ NoBox
    /\ NoList
    /\ NoTimers

\* addEffect(effect)
AddEffectCall ==
    \E effect \in Disposers :
        /\ Len(effects) < MaxEffects
        /\ EffectCommit("addEffect", effect, addEffect(EffectMachine(effects), effect))
        /\ removed' = removed \ {effect}

\* A call of a closure addEffect(effect) returned: one of a disposer that is
\* in effects, or one of a disposer a closure has removed (index -1).
UnregisterCall ==
    \E effect \in Range(effects) \cup removed :
        /\ EffectCommit("unregister", effect, unregister(EffectMachine(effects), effect))
        /\ removed' = IF Cardinality({i \in 1..Len(effects) : effects[i] = effect}) = 1
                       THEN removed \cup {effect}
                       ELSE removed

\* dispose()
DisposeCall ==
    /\ EffectCommit("dispose", "none", dispose(store, EffectMachine(effects)))
    /\ UNCHANGED removed

EffectNext == AddEffectCall \/ UnregisterCall \/ DisposeCall

SpecEffects == EffectInit /\ [][EffectNext]_vars

\* ------------------------------------------- createTimer, createInterval
\* The two timed hooks: "timer" is one made by createTimer (setTimeout and
\* clearTimeout), "interval" one made by createInterval (setInterval and
\* clearInterval).  Both live on the same platform.
Hooks == {"timer", "interval"}

\* The timerFn functions callers pass:
\*   tick     only runs
\*   restart  calls start() of its hook
\*   halt     calls stop() of its hook
TimerFns == {"tick", "restart", "halt"}

\* let timeoutId: number | null = null  (and intervalId)
Null == 0

\* The record a step of the hook h runs on: its id variable, the platform
\* timers scheduled, the id the platform gives next, and the platform calls
\* made in order.  runs is bookkeeping for the properties only: the runs of
\* the callback since the hook last scheduled a timer.
TimerMachine(h) ==
    [h |-> h, id |-> hooks[h].id, active |-> active, next |-> nextId, calls |-> <<>>,
     runs |-> runs[h]]

PlatformCall(fn, id) == [fn |-> fn, id |-> id]

\* setTimeout(timerFn, ms) / setInterval(timerFn, ms): schedules a timer and
\* returns its id, a number greater than zero no timer had before.
setTimer(t) ==
    [t EXCEPT !.active = @ \cup {[id |-> t.next, owner |-> t.h]},
              !.next = @ + 1,
              !.calls = Append(@, PlatformCall("set", t.next)),
              !.id = t.next,
              !.runs = 0]

\* clearTimeout(id) / clearInterval(id): the timer with that id, if one is
\* scheduled, no longer is.
clearTimer(t, id) ==
    [t EXCEPT !.active = {a \in @ : a.id # id},
              !.calls = Append(@, PlatformCall("clear", id))]

\* Faulty variant of stop (the id is kept), for the sensitivity of C19.
stopKeepsId(t) ==
    IF t.id = Null THEN t ELSE clearTimer(t, t.id)

\* stop: if (!timeoutId) return; clearTimeout(timeoutId); timeoutId = null;
stop(t) ==
    IF t.id = Null THEN t
    ELSE [clearTimer(t, t.id) EXCEPT !.id = Null]

\* Faulty variant of start (the running timer is not stopped), for the
\* sensitivity of C18.
startNoStop(t) == setTimer(t)

\* Faulty variant of start (nothing is scheduled while an id is stored), for
\* the sensitivity of C21.
startIfIdle(t) == IF t.id # Null THEN t ELSE setTimer(t)

\* start: if (timeoutId) stop(); timeoutId = setTimeout(timerFn, ms);
start(t) ==
    setTimer(IF t.id # Null THEN stop(t) ELSE t)

\* Faulty variant of reset (stop only), for the sensitivity of C20.
resetStops(t) == stop(t)

\* reset: stop(); start();
reset(t) == start(stop(t))

\* timerFn()
timerFn(t, fn) ==
    CASE fn = "tick" -> t
      [] fn = "restart" -> start(t)
      [] fn = "halt" -> stop(t)

\* Faulty variant of fire (a timeout stays scheduled like an interval, as if
\* createTimer called setInterval), for the sensitivity of C22.
fireRepeating(t, a) ==
    timerFn([t EXCEPT !.runs = @ + 1], hooks[a.owner].fn)

\* Faulty variant of fire (the hook forgets the id of a timeout that runs),
\* for the sensitivity of C30.
fireForgetsId(t, a) ==
    timerFn(IF a.owner = "timer"
            THEN [t EXCEPT !.active = @ \ {a}, !.runs = @ + 1, !.id = Null]
            ELSE [t EXCEPT !.runs = @ + 1],
            hooks[a.owner].fn)

\* The platform runs the scheduled timer a: a timeout is no longer scheduled
\* once it runs, an interval stays scheduled; then the callback is called.
fire(t, a) ==
    timerFn(IF a.owner = "timer"
            THEN [t EXCEPT !.active = @ \ {a}, !.runs = @ + 1]
            ELSE [t EXCEPT !.runs = @ + 1],
            hooks[a.owner].fn)

\* What a step did.  prevId and prevActive are the id variable of the hook
\* and the scheduled timers before the step, fired the id of the timer that
\* ran in it (0 if the step was a call).
TimerOutcome(op, h, t, fired) ==
    [op |-> op, h |-> h, prevId |-> hooks[h].id, prevActive |-> active,
     calls |-> t.calls, fired |-> fired]

TimerCommit(op, h, t, fired) ==
    /\ hooks' = [hooks EXCEPT ![h].id = t.id]
    /\ active' = t.active
    /\ nextId' = t.next
    /\ timerLast' = TimerOutcome(op, h, t, fired)
    /\ runs' = [runs EXCEPT ![h] = t.runs]
    /\ UNCHANGED <<boxVars, listVars, effectVars>>

\* createTimer(timerFn, ms) and createInterval(timerFn, ms)
TimerInit ==
    /\ hooks \in [Hooks -> [id : {Null}, fn : TimerFns]]
    /\ active = {}
    /\ nextId = 1
    /\ timerLast = [op |-> "new", h |-> "timer", prevId |-> Null, prevActive |-> {},
                    calls |-> <<>>, fired |-> 0]
    /\ runs = [h \in Hooks |-> 0]
    /\ NoBox
    /\ NoList
    /\ NoEffects

\* hook.start()
StartCall ==
    \E h \in Hooks :
        /\ nextId <= MaxIds
        /\ TimerCommit("start", h, start(TimerMachine(h)), 0)

\* hook.stop()
StopCall ==
    \E h \in Hooks : TimerCommit("stop", h, stop(TimerMachine(h)), 0)

\* hook.reset()
ResetCall ==
    \E h \in Hooks :
        /\ nextId <= MaxIds
        /\ TimerCommit("reset", h, reset(TimerMachine(h)), 0)

\* A scheduled timer runs.
Fire ==
    \E a \in active :
        /\ nextId <= MaxIds \/ hooks[a.owner].fn # "restart"
        /\ runs[a.owner] < MaxRuns
        /\ TimerCommit("fire", a.owner, fire(TimerMachine(a.owner), a), a.id)

TimerNext == StartCall \/ StopCall \/ ResetCall \/ Fire

SpecTimers == TimerInit /\ [][TimerNext]_vars

\* ------------------------------------------------- properties of the list
Mutators == {"add", "remove", "map"}

\* C11: after add(x) the list holds the items it held before followed by x,
\* in an array object other than the one it held before, and that old array
\* object still holds exactly the items it held before.
C11_AddAppendsToNewArray ==
    listLast.op = "add"
        => /\ list = listLast.prevList \o <<listLast.arg>>
           /\ listLast.fresh
           /\ listLast.oldAfter = listLast.prevList

C11_Witness ==
    /\ listLast.op = "add"
    /\ Len(listLast.prevList) = 2
    /\ list = listLast.prevList \o <<listLast.arg>>
    /\ listLast.oldAfter = listLast.prevList

C13_MutatorsAlwaysNotify ==
    listLast.op \in Mutators
        => /\ listLast.passes = 1
           /\ (listLast.prevSubs # <<>>
                 => /\ listLast.log # <<>>
                    /\ listLast.log[1].cb = listLast.prevSubs[1]
                    /\ listLast.log[1].via = "notify")

C13_Witness ==
    /\ listLast.op = "remove"
    /\ listLast.arg = 0
    /\ listLast.prevList # <<>>
    /\ list = listLast.prevList
    /\ listLast.prevSubs = <<"r1">>
    /\ listLast.passes = 1
    /\ Len(listLast.log) = 1

\* C14: find returns the first item of the list the predicate holds for, or
\* undefined if there is none; filter returns the items it holds for, in
\* order, in a new array object; neither changes the stored array, the
\* subscribers, or invokes a subscriber.
C14_FindAndFilterOnlyRead ==
    listLast.op \in {"find", "filter"}
        => /\ list = listLast.prevList
           /\ ~listLast.fresh
           /\ listLast.oldAfter = listLast.prevList
           /\ listSubscribers = listLast.prevSubs
           /\ listLast.log = <<>>
           /\ listLast.passes = 0
           /\ listLast.op = "find"
                 => IF \E i \in 1..Len(list) : Holds(listLast.arg, list[i])
                    THEN \E i \in 1..Len(list) :
                            /\ listLast.ret = list[i]
                            /\ Holds(listLast.arg, list[i])
                            /\ \A j \in 1..(i - 1) : ~Holds(listLast.arg, list[j])
                    ELSE listLast.ret = Undefined
           /\ listLast.op = "filter"
                 => /\ listLast.ret = SelectSeq(list, LAMBDA x : Holds(listLast.arg, x))
                    /\ listLast.retNew

C14_Witness ==
    /\ listLast.op = "filter"
    /\ listLast.prevSubs # <<>>
    /\ listLast.ret # <<>>
    /\ Len(listLast.ret) < Len(list)
    /\ listLast.log = <<>>

\* ---------------------------------------- properties of the effect store
\* C15: a dispose call that no disposer throws in invokes every disposer of
\* effects exactly once, in registration order, and leaves effects empty; a
\* dispose call that directly follows a dispose call invokes nothing.
C15_DisposeInvokesAllAndDrains ==
    (effectsLast.op = "dispose" /\ ~effectsLast.exc)
        => /\ effectsLast.log = Tagged(effectsLast.prevEffects)
           /\ effects = <<>>
           /\ (effectsLast.prior = "dispose" => effectsLast.log = <<>>)

\* C16: a disposer whose only entry was removed by the closure addEffect
\* returned for it, and that has not been added since, is not invoked by a
\* dispose call, and every entry effects holds when dispose is called is
\* invoked by it (no disposer throwing).
C16_UnregisteredIsExempt ==
    (effectsLast.op = "dispose" /\ ~effectsLast.exc /\ removed # {})
        => /\ \A i \in 1..Len(effectsLast.log) : effectsLast.log[i].fn \notin removed
           /\ \A k \in 1..Len(effectsLast.prevEffects) :
                 \E i \in 1..Len(effectsLast.log) : effectsLast.log[i].reg = k

\* C17: a dispose call in which a disposer throws ends with the exception
\* propagating, the throwing disposer being the last one invoked: no entry
\* registered after it is invoked in that call.
C17_ThrowAbortsDispose ==
    (effectsLast.op = "dispose"
        /\ \E i \in 1..Len(effectsLast.log) : effectsLast.log[i].fn = "dth")
        => /\ effectsLast.exc
           /\ effectsLast.log[Len(effectsLast.log)].fn = "dth"
           /\ \A i \in 1..Len(effectsLast.log) :
                 effectsLast.log[i].reg <= effectsLast.log[Len(effectsLast.log)].reg

C17_Witness ==
    /\ effectsLast.op = "dispose"
    /\ effectsLast.prevEffects = <<"d1", "dth", "d2">>
    /\ effectsLast.exc
    /\ effectsLast.log = <<Reg("d1", 1), Reg("dth", 2)>>

\* ---------------------------------------- properties of the timed hooks
\* The platform timers of the hook h that are scheduled.
Owned(h) == {a \in active : a.owner = h}

Scheduled(id, h) == [id |-> id, owner |-> h]

\* C18: at all times at most one platform timer scheduled by a hook is
\* active; a start() call on a running hook first clears the timer of the
\* stored id and then schedules the new one, which is the only one active.
C18_AtMostOneActiveTimer ==
    /\ \A h \in Hooks : Cardinality(Owned(h)) <= 1
    /\ (timerLast.op = "start" /\ timerLast.prevId # Null)
          => /\ timerLast.calls = <<PlatformCall("clear", timerLast.prevId),
                                    PlatformCall("set", hooks[timerLast.h].id)>>
             /\ Owned(timerLast.h) = {Scheduled(hooks[timerLast.h].id, timerLast.h)}

C18_Witness ==
    /\ timerLast.op = "start"
    /\ Scheduled(timerLast.prevId, timerLast.h) \in timerLast.prevActive
    /\ Owned(timerLast.h) = {Scheduled(hooks[timerLast.h].id, timerLast.h)}
    /\ hooks[timerLast.h].id # timerLast.prevId

\* C19: stop() leaves the hook idle with none of its timers scheduled; on a
\* running hook it makes one platform call, clearing the timer of the stored
\* id; on an idle hook it makes no platform call and changes nothing.
C19_StopCancelsOrDoesNothing ==
    timerLast.op = "stop"
        => /\ hooks[timerLast.h].id = Null
           /\ Owned(timerLast.h) = {}
           /\ timerLast.prevId # Null
                 => timerLast.calls = <<PlatformCall("clear", timerLast.prevId)>>
           /\ timerLast.prevId = Null
                 => timerLast.calls = <<>> /\ active = timerLast.prevActive

C19_Witness ==
    /\ timerLast.op = "stop"
    /\ Scheduled(timerLast.prevId, timerLast.h) \in timerLast.prevActive
    /\ hooks[timerLast.h].id = Null
    /\ Owned(timerLast.h) = {}

\* C20: after reset() the hook is running and exactly one of its timers is
\* scheduled, one with an id no timer had before; the timer of the id stored
\* before is cleared first.  A timer that runs is always the one of the id
\* its hook stores, so a cleared one never runs.
C20_ResetSchedulesOneFreshTimer ==
    /\ timerLast.op = "reset"
          => /\ hooks[timerLast.h].id # Null
             /\ Owned(timerLast.h) = {Scheduled(hooks[timerLast.h].id, timerLast.h)}
             /\ hooks[timerLast.h].id # timerLast.prevId
             /\ \A a \in timerLast.prevActive : a.id < hooks[timerLast.h].id
             /\ timerLast.calls[Len(timerLast.calls)] = PlatformCall("set", hooks[timerLast.h].id)
             /\ timerLast.prevId # Null
                   => timerLast.calls[1] = PlatformCall("clear", timerLast.prevId)
    /\ timerLast.op = "fire" => timerLast.fired = timerLast.prevId

C20_Witness ==
    /\ timerLast.op = "reset"
    /\ Scheduled(timerLast.prevId, timerLast.h) \in timerLast.prevActive
    /\ Owned(timerLast.h) = {Scheduled(hooks[timerLast.h].id, timerLast.h)}
    /\ hooks[timerLast.h].id # timerLast.prevId

\* C21: while no start() or reset() has been called no platform timer is
\* scheduled, both hooks are idle and no callback has run; a callback only
\* runs for a hook that stores an id, i.e. one that was started; and in
\* every state a start() call on either hook would schedule a new timer,
\* the only one of that hook.
C21_NewHookIdleAndAlwaysStartable ==
    /\ nextId = 1
          => /\ active = {}
             /\ \A h \in Hooks : hooks[h].id = Null
             /\ timerLast.op \in {"new", "stop"}
    /\ timerLast.op = "fire" => timerLast.prevId # Null
    /\ \A h \in Hooks :
          LET t == start(TimerMachine(h))
          IN  /\ t.id = nextId
              /\ {a \in t.active : a.owner = h} = {Scheduled(nextId, h)}

C21_Witness ==
    /\ timerLast.op = "start"
    /\ timerLast.prevId = Null
    /\ timerLast.prevActive # {}
    /\ nextId > 3
    /\ Owned(timerLast.h) = {Scheduled(hooks[timerLast.h].id, timerLast.h)}

\* C22: the callback of a createTimer hook has run at most once since the
\* hook last scheduled a timer (the callback of a createInterval hook may
\* have run more often); a hook that is idle, as after stop(), has no timer
\* scheduled, and the timer that runs is always one of a hook that stores
\* its id, so no callback runs between a stop() and the next start().
C22_TimerRunsOnceIntervalRepeats ==
    /\ runs["timer"] <= 1
    /\ \A h \in Hooks : hooks[h].id = Null => Owned(h) = {}
    /\ timerLast.op = "fire"
          => /\ timerLast.fired = timerLast.prevId
             /\ Scheduled(timerLast.fired, timerLast.h) \in timerLast.prevActive
    /\ (timerLast.op = "fire" /\ timerLast.h = "timer")
          => Scheduled(timerLast.fired, "timer") \notin active

C22_Witness ==
    /\ runs["interval"] = 2
    /\ runs["timer"] = 1
    /\ timerLast.op = "fire"
    /\ hooks["interval"].fn = "tick"
    /\ hooks["timer"].fn = "tick"

\* The createTimer hook stored an id before the last step whose timeout was
\* no longer scheduled: the timeout had run.
Stale ==
    /\ timerLast.h = "timer"
    /\ timerLast.prevId # Null
    /\ Scheduled(timerLast.prevId, "timer") \notin timerLast.prevActive

\* C30: when the timeout of a createTimer hook runs (its callback doing
\* nothing else) the hook keeps the id, with no timer scheduled; a start()
\* or reset() in that situation makes one scheduling call, leaving exactly
\* one timeout scheduled, whose callback has not run and runs at most once;
\* a stop() in that situation leaves the hook idle, the callback not having
\* run again.
C30_TimerKeepsIdAfterRunning ==
    /\ (timerLast.op = "fire" /\ timerLast.h = "timer" /\ hooks["timer"].fn = "tick")
          => /\ hooks["timer"].id = timerLast.prevId
             /\ hooks["timer"].id # Null
             /\ Owned("timer") = {}
    /\ (timerLast.op \in {"start", "reset"} /\ Stale)
          => /\ Owned("timer") = {Scheduled(hooks["timer"].id, "timer")}
             /\ hooks["timer"].id # timerLast.prevId
             /\ Cardinality({i \in 1..Len(timerLast.calls) : timerLast.calls[i].fn = "set"}) = 1
             /\ runs["timer"] = 0
    /\ (timerLast.op = "stop" /\ Stale)
          => /\ hooks["timer"].id = Null
             /\ active = timerLast.prevActive
             /\ runs["timer"] = 1
    /\ runs["timer"] <= 1

C30_Witness ==
    /\ timerLast.op = "start"
    /\ Stale
    /\ hooks["timer"].fn = "tick"
    /\ Owned("timer") = {Scheduled(hooks["timer"].id, "timer")}

\* ------------------------------------- further properties of VexdState
\* The callbacks that call neither sideEffect, an unsubscribe closure nor
\* clear.
Bystanders == {"r1", "r2", "th", "st"}

\* C23: reading state changes neither the value nor the subscribers and
\* invokes nobody; a setState call, notifying or suppressed, whose
\* subscribers are all bystanders leaves the subscribers exactly as they
\* were.
C23_SubscribersChangeOnlyExplicitly ==
    /\ last.call.op = "state"
          => /\ value = last.prevValue
             /\ subscribers = last.prevSubs
             /\ last.log = <<>>
             /\ last.vals = <<>>
             /\ last.passes = 0
    /\ (last.call.op = "setState" /\ Range(last.prevSubs) \subseteq Bystanders)
          => subscribers = last.prevSubs

C23_Witness ==
    /\ last.call.op = "setState"
    /\ last.prevSubs = <<"st", "r1", "th">>
    /\ last.passes = 2
    /\ last.exc
    /\ subscribers = last.prevSubs

\* C24: in a sideEffect(fn, true) call the registration of fn is in the
\* list while the immediate call runs: when fn is st and the value is 1, so
\* that the immediate call sets the value to 2, the pass of that set
\* invokes the new registration of st with 2.
C24_RegisteredDuringImmediateCall ==
    (last.call.op = "sideEffect" /\ last.call.triggerNow /\ last.call.fn = "st"
        /\ last.prevValue = 1 /\ ~last.exc)
        => \E i \in 1..Len(last.log) :
              /\ last.log[i].cb = "st"
              /\ last.log[i].reg = 0
              /\ last.log[i].via = "notify"
              /\ last.log[i].val = 2

\* C25: every callback the pass of a setState call invokes receives the
\* value that call computed, also when a callback invoked earlier in the
\* pass has called setState itself.
C25_PassDeliversOwnValue ==
    last.call.op = "setState"
        => \A i \in 1..Len(OuterPass(last.log)) : OuterPass(last.log)[i].val = LastNext

\* C26: the pass of a changing setState call that no callback throws in
\* invokes every callback that was in subscribers when the call began
\* exactly once, also when a callback calls its unsubscribe closure during
\* the pass.
C26_PassInvokesEverySubscriberOnce ==
    (last.call.op = "setState" /\ ~last.exc /\ ~StrictEq(LastNext, last.prevValue))
        => \A k \in 1..Len(last.prevSubs) :
              Cardinality({i \in 1..Len(OuterPass(last.log)) :
                              OuterPass(last.log)[i].reg = k}) = 1

\* --------------------------------- further properties of the effect store
\* C27: a dispose call that no disposer throws in invokes every entry that
\* was in effects when it was called, once and in registration order, also
\* when one of them, dun, calls its own unregister closure when run.
C27_DisposeSurvivesUnregister ==
    (effectsLast.op = "dispose" /\ ~effectsLast.exc
        /\ \E k \in 1..Len(effectsLast.prevEffects) : effectsLast.prevEffects[k] = "dun")
        => Fns(effectsLast.log) = effectsLast.prevEffects

\* The last call was a setState call that stored one value and that a
\* subscriber threw in.
ThrewInPass ==
    last.call.op = "setState" /\ last.exc /\ Len(last.vals) = 1

\* What a setState call with the value the last call computed would do in
\* the present state.
Repeated == setState(Machine(value, subscribers), Literal(LastNext))

C29_ClearDuringPassKeepsPass ==
    (last.call.op = "setState" /\ ~last.exc)
        => \A i \in 1..Len(OuterPass(last.log)) :
              OuterPass(last.log)[i].cb = "cl"
                => /\ \A k \in (OuterPass(last.log)[i].reg + 1)..Len(last.prevSubs) :
                         \E j \in 1..Len(OuterPass(last.log)) :
                            /\ OuterPass(last.log)[j].reg = k
                            /\ OuterPass(last.log)[j].val = LastNext
                   /\ subscribers = <<>>
====
